---- MODULE Spec2Model ----
(***************************************************************************)
(* Model of sync_srm.py: harvesting of download tasks from a remote store  *)
(* (recursive walk or explicit LFN list), resumability classification of   *)
(* every task against the local disk, and the bounded-concurrency download *)
(* loop with its progress lines and final summary.                         *)
(*                                                                         *)
(* Strings are sequences of one-character strings, so that the string      *)
(* operations of the source (strip, split, join, startswith, rfind) are    *)
(* computed as the source computes them.                                   *)
(***************************************************************************)
EXTENDS Integers, Sequences, FiniteSets, TLC

\* ------------------------------------------------------------------------
\* String helpers (Python str methods used by the source)
\* ------------------------------------------------------------------------

\* The({ e : x \in { v } }) is LET x == v IN e, with v evaluated once, where
\* it is bound, instead of wherever e mentions x
The(S) == CHOOSE x \in S : TRUE

RECURSIVE LStrip(_, _)
\* str.lstrip(c)
LStrip(s, c) ==
    IF s # <<>> /\ Head(s) = c THEN LStrip(Tail(s), c) ELSE s

RECURSIVE RStrip(_, _)
\* str.rstrip(c)
RStrip(s, c) ==
    IF s # <<>> /\ s[Len(s)] = c THEN RStrip(SubSeq(s, 1, Len(s) - 1), c) ELSE s

\* str.strip(c)
Strip(s, c) == RStrip(LStrip(s, c), c)

Dot == << "." >>

\* str.startswith(p)
StartsWith(s, p) == Len(p) <= Len(s) /\ SubSeq(s, 1, Len(p)) = p

\* str.endswith(p)
EndsWith(s, p) == Len(p) <= Len(s) /\ SubSeq(s, Len(s) - Len(p) + 1, Len(s)) = p

\* s[n:]
From(s, n) == SubSeq(s, n + 1, Len(s))

RECURSIVE Split(_, _)
\* str.split(sep) for a non-empty separator: the pieces between the
\* non-overlapping occurrences of sep, scanned from the left
Split(str, sep) ==
    The({ LET hits == { i \in 1..(Len(s) - Len(sep) + 1) :
                          SubSeq(s, i, i + Len(sep) - 1) = sep }
          IN  IF hits = {} THEN << s >>
              ELSE LET i == CHOOSE k \in hits : \A j \in hits : k <= j
                   IN  << SubSeq(s, 1, i - 1) >> \o Split(From(s, i + Len(sep) - 1), sep)
          : s \in { str } })

RECURSIVE StrJoin(_, _)
\* sep.join(parts)
StrJoin(sep, parts) ==
    IF parts = <<>> THEN <<>>
    ELSE IF Len(parts) = 1 THEN parts[1]
    ELSE parts[1] \o sep \o StrJoin(sep, Tail(parts))

\* str.rfind(c) for a one-character c, as a 0-based index, -1 when absent
RFind(s, c) ==
    LET hits == { i \in 1..Len(s) : s[i] = c }
    IN  IF hits = {} THEN -1
        ELSE (CHOOSE k \in hits : \A j \in hits : j <= k) - 1

Slash == << "/" >>

\* ------------------------------------------------------------------------
\* joinUrl
\* ------------------------------------------------------------------------

\* Result of joinUrl(*parts): a string, or the marker ValueError when called
\* with no part.
ValueError == << "!", "V" >>

\* no part is dropped
KeepAllParts(parts, i) == parts

RECURSIVE KeepParts(_, _)
\* [ p for i,p in zip(count(), parts) if i == 0 or p.strip("/") != "." ],
\* from the part at (1-based) index i on
KeepParts(parts, i) ==
    IF i > Len(parts) THEN <<>>
    ELSE (IF i = 1 \/ Strip(parts[i], "/") # Dot THEN << parts[i] >> ELSE <<>>)
         \o KeepParts(parts, i + 1)

RECURSIVE Stripped(_, _)
\* chain([parts[0].rstrip("/")], (p.strip("/") for p in parts[1:-1]),
\* [parts[-1].lstrip("/")]), from the part at index i on
Stripped(kept, i) ==
    IF i > Len(kept) THEN <<>>
    ELSE << IF i = 1 THEN RStrip(kept[1], "/")
            ELSE IF i = Len(kept) THEN LStrip(kept[i], "/")
            ELSE Strip(kept[i], "/") >>
         \o Stripped(kept, i + 1)

joinUrl(parts) ==
    The({ IF Len(kept) < 1 THEN ValueError
          ELSE IF Len(kept) = 1 THEN kept[1]
          ELSE The({ StrJoin(Slash, pieces)
                     : pieces \in { Split(StrJoin(Slash, Stripped(kept, 1)),
                                          << "/", ".", "/" >>) } })
          : kept \in { IF Len(parts) >= 2 THEN KeepParts(parts, 1) ELSE parts } })

\* ------------------------------------------------------------------------
\* fnmatch and os.path
\* ------------------------------------------------------------------------

RECURSIVE fnmatchcase(_, _)
\* fnmatch.fnmatchcase(name, pat) for patterns made of literal characters
\* and "*" (the only wildcard the modelled command lines use)
fnmatchcase(name, pat) ==
    IF pat = <<>> THEN name = <<>>
    ELSE IF Head(pat) = "*"
         THEN \E k \in 0..Len(name) : fnmatchcase(From(name, k), Tail(pat))
         ELSE name # <<>> /\ Head(name) = Head(pat) /\ fnmatchcase(Tail(name), Tail(pat))

\* os.path.dirname(p)
dirname(p) ==
    LET head == SubSeq(p, 1, RFind(p, "/") + 1)
    IN  IF head # <<>> /\ RStrip(head, "/") # <<>> THEN RStrip(head, "/") ELSE head

\* os.path.basename(p)
basename(p) == From(p, RFind(p, "/") + 1)

\* os.path.join(a, b)
OsPathJoin(a, b) ==
    IF StartsWith(b, Slash) THEN b
    ELSE IF a = <<>> \/ EndsWith(a, Slash) THEN a \o b
    ELSE a \o Slash \o b

RECURSIVE Components(_)
\* the non-empty, non-"." components of a list of path pieces
Components(pieces) ==
    IF pieces = <<>> THEN <<>>
    ELSE (IF Head(pieces) = <<>> \/ Head(pieces) = Dot THEN <<>> ELSE << Head(pieces) >>)
         \o Components(Tail(pieces))

\* The file-system object a path names (what os.path.abspath / the kernel
\* resolve it to): "/" first when absolute, then its components.
Resolved(p) ==
    The({ (IF StartsWith(q, Slash) THEN << Slash >> ELSE <<>>) \o Components(pieces)
          : q \in { p }, pieces \in { Split(p, Slash) } })

\* os.path.isdir(d) against the set of existing directories; the working
\* directory and the root always exist
IsDir(ds, d) == d # <<>> /\ (Resolved(d) \in ds \/ Resolved(d) \in { <<>>, << Slash >> })

\* os.makedirs(d): d and every missing ancestor
MakeDirs(ds, d) ==
    The({ ds \cup { SubSeq(r, 1, k) : k \in 1..Len(r) } : r \in { Resolved(d) } })

\* ------------------------------------------------------------------------
\* DownloadTask
\* ------------------------------------------------------------------------

\* _checkDone demanding a local file larger than nBytes (> for >=)
CheckDoneStrict(dk, dest, nBytes) ==
    The({ IF file \notin DOMAIN dk
          THEN [ done |-> FALSE, disk |-> dk ]
          ELSE LET dskSize == dk[file]
               IN  IF dskSize > nBytes
                   THEN [ done |-> TRUE, disk |-> dk ]
                   ELSE [ done |-> FALSE,
                          disk |-> [ f \in DOMAIN dk \ { file } |-> dk[f] ] ]
          : file \in { Resolved(dest) } })

\* DownloadTask._checkDone against the local files dk; returns the verdict
\* and the local files afterwards (os.remove of a too-small file)
CheckDone(dk, dest, nBytes) ==
    The({ IF file \notin DOMAIN dk
          THEN [ done |-> FALSE, disk |-> dk ]
          ELSE LET dskSize == dk[file]
               IN  IF dskSize >= nBytes
                   THEN [ done |-> TRUE, disk |-> dk ]
                   ELSE [ done |-> FALSE,
                          disk |-> [ f \in DOMAIN dk \ { file } |-> dk[f] ] ]
          : file \in { Resolved(dest) } })

\* DownloadTask.__init__
DownloadTask(dk, origUrl, dest, nBytes) ==
    The({ [ task |-> [ origUrl |-> origUrl, dest |-> dest, nBytes |-> nBytes,
                       done |-> chk.done ],
            disk |-> chk.disk ]
          : chk \in { CheckDone(dk, dest, nBytes) } })

RECURSIVE BuildTasks(_, _)
\* Construct one DownloadTask per element of todo (records origUrl, dest,
\* nBytes), in order, threading the local files through the constructors
BuildTasks(dk, todo) ==
    IF todo = <<>> THEN [ tasks |-> <<>>, disk |-> dk ]
    ELSE The({ The({ [ tasks |-> << first.task >> \o rest.tasks, disk |-> rest.disk ]
                     : rest \in { BuildTasks(first.disk, Tail(todo)) } })
               : first \in { DownloadTask(dk, Head(todo).origUrl, Head(todo).dest,
                                          Head(todo).nBytes) } })

\* ------------------------------------------------------------------------
\* Bounds and program constants
\* ------------------------------------------------------------------------

\* asyncio.Semaphore(10) for the listing requests
LsSemaphoreSize == 10

\* number of sibling directories of the wide remote tree
WideN == 11

\* how many external listing / copy calls may fail in one run
MaxLsFail == 1
MaxCpFail == 1

\* range(1,101): the number of percentage steps of the progress report
NProgSteps == 100

\* number of runs of the program in the two-run specification
MaxRuns == 2

\* the largest number of pending tasks of the progress-loop specification
MaxBig == 150

\* the largest number of parts joinUrl is called with on its own
MaxParts == 3

\* ------------------------------------------------------------------------
\* The remote store and the external tools
\* ------------------------------------------------------------------------

Alpha == << "a", "b", "c", "d", "e", "g", "h", "i", "j", "k", "l", "m", "n", "q" >>

\* LS_L1_PREFIX = " "*6
LS_L1_PREFIX == 6

ExcludedName ==
    << "m","u","o","n","S","e","t","_","r","a","n","d","o","m","i","z","e","d",".","r","o","o","t" >>

\* Remote trees: directory (absolute, with trailing slash) -> its entries in
\* listing order, <<size, name>>, a subdirectory's name ending with "/".
\* /p/A/f.r (100), /p/A/g.r (200), /p/B/h.r (50)
Tree14 ==
    ( << "/","p","/" >> :> << << 0, << "A","/" >> >>, << 0, << "B","/" >> >> >> ) @@
    ( << "/","p","/","A","/" >> :> << << 100, << "f",".","r" >> >>, << 200, << "g",".","r" >> >> >> ) @@
    ( << "/","p","/","B","/" >> :> << << 50, << "h",".","r" >> >> >> )

\* /w/ with WideN subdirectories; /w/a/ holds f.r (3) and the empty /w/a/T/
TreeWide ==
    ( << "/","w","/" >> :> [ k \in 1..WideN |-> << 0, << Alpha[k], "/" >> >> ] ) @@
    ( << "/","w","/","a","/" >> :> << << 3, << "f",".","r" >> >>, << 0, << "T","/" >> >> >> ) @@
    ( << "/","w","/","a","/","T","/" >> :> <<>> ) @@
    [ d \in { << "/","w","/", Alpha[k], "/" >> : k \in 2..WideN } |-> <<>> ]

\* /d/ four levels deep, with files at every level, a file the default
\* filter of the scenarios rejects (x.t) and sibling directories
TreeDeep ==
    ( << "/","d","/" >> :> << << 1, << "e",".","r" >> >>, << 7, << "x",".","t" >> >>, << 0, << "K","/" >> >>, << 0, << "L","/" >> >> >> ) @@
    ( << "/","d","/","K","/" >> :> << << 2, << "f",".","r" >> >>, << 0, << "T","/" >> >>, << 0, << "U","/" >> >> >> ) @@
    ( << "/","d","/","L","/" >> :> << << 4, << "g",".","r" >> >> >> ) @@
    ( << "/","d","/","K","/","T","/" >> :> << << 8, << "h",".","r" >> >>, << 0, << "V","/" >> >> >> ) @@
    ( << "/","d","/","K","/","U","/" >> :> << << 16, << "i",".","r" >> >> >> ) @@
    ( << "/","d","/","K","/","T","/","V","/" >> :> << << 32, << "j",".","r" >> >> >> )

\* /store/X/ with a.root (10) and b.root (20)
TreeStore ==
    ( << "/","s","t","o","r","e","/","X","/" >> :> << << 10, << "a",".","r","o","o","t" >> >>, << 20, << "b",".","r","o","o","t" >> >> >> )

\* /b/ with n files of one byte each
TreeBig(n) ==
    ( << "/","b","/" >> :> [ k \in 1..n |->
                << 1, << Alpha[((k - 1) \div Len(Alpha)) + 1],
                         Alpha[((k - 1) % Len(Alpha)) + 1], ".", "r" >> >> ] )

\* The remote directory a URL names: the URL without the server part, with
\* exactly one trailing slash
RemoteDir(srm, url) == RStrip(From(url, Len(RStrip(srm, "/"))), "/") \o Slash

\* srmls <url>: exit code and output lines (indentation, size, absolute
\* path); the directory itself comes first, less indented than its entries.
\* ok = FALSE is a call that fails for a reason outside the program.
Srmls(rem, srm, url, ok) ==
    The({ IF ~ok \/ d \notin DOMAIN rem THEN [ rc |-> 1, out |-> <<>> ]
          ELSE [ rc |-> 0,
                 out |-> << [ indent |-> 2, size |-> 0, path |-> d ] >> \o
                         [ i \in 1..Len(rem[d]) |->
                             [ indent |-> LS_L1_PREFIX, size |-> rem[d][i][1],
                               path |-> d \o rem[d][i][2] ] ] ]
          : d \in { RemoteDir(srm, url) } })

\* gfal-ls -l <url>: exit code and, per output line, the columns the program
\* reads (column 4: size, column 8: name, a directory without its slash)
GfalLs(rem, srm, url, ok) ==
    The({ IF ~ok \/ d \notin DOMAIN rem THEN [ rc |-> 1, out |-> <<>> ]
          ELSE [ rc |-> 0,
                 out |-> [ i \in 1..Len(rem[d]) |->
                             [ size |-> rem[d][i][1],
                               name |-> RStrip(rem[d][i][2], "/") ] ] ]
          : d \in { RemoteDir(srm, url) } })

RECURSIVE Entries(_, _)
\* [ (int(ln.split()[0]), ln.split()[1].split(pref)[1]) for ln in ... ]
Entries(lines, pref) ==
    IF lines = <<>> THEN <<>>
    ELSE << [ sz |-> Head(lines).size, ln |-> Split(Head(lines).path, pref)[2] ] >>
         \o Entries(Tail(lines), pref)

\* list_directory, after the listing call returned `output`:
\* (subdirectories, files with sizes)
list_directory(path, output) ==
    LET isDir(e) == EndsWith(e.ln, Slash)
    IN  The({ The({ [ subdirs |-> SelectSeq(entries, isDir),
                      files |-> SelectSeq(entries, LAMBDA e : ~isDir(e)) ]
                    : entries \in { Entries(SelectSeq(output,
                                                LAMBDA ln : ln.indent >= LS_L1_PREFIX),
                                             pref) } })
              : pref \in { RStrip(path, "/") \o Slash } })

\* fnFilter of main
fnFilter(pat, fn) == fnmatchcase(fn, pat) /\ fn # ExcludedName

\* the default dirFilter of main, whatever --dirfilter says
dirFilterAll(pats, iLv, dirName) == TRUE

\* dirFilter of main
dirFilter(pats, iLv, dirName) ==
    pats = <<>> \/ iLv # 1 \/
    \E i \in 1..Len(pats) : fnmatchcase(basename(RStrip(dirName, "/")), pats[i])

\* ------------------------------------------------------------------------
\* State
\* ------------------------------------------------------------------------

VARIABLES
    scn,        \* which command line and remote store this behaviour is about
    disk,       \* local files: resolved path -> size in bytes
    dirs,       \* local directories: set of resolved paths
    phase,      \* "harvest", "download", "done" (main returned), "aborted"
    error,      \* the exception that ended an aborted run, "" otherwise
    pathIdx,    \* position of `for path in args.path` (1-based)
    hv,         \* recursive harvest of the current path: node path -> record
    lfn,        \* explicit-list harvest of the current path
    lsSem,      \* value of lsReqSemaphore
    tasks,      \* the DownloadTasks harvested so far, in harvest order
    dlTasks,    \* `tasks` after line 200: indices (into tasks) of those not done
    pc,         \* per element of dlTasks, where its run() coroutine stands
    nCopy,      \* per element of dlTasks, copy invocations started for it
    dlSem,      \* value of downloadSemaphore
    doneQ,      \* finished run() results not yet yielded by as_completed
    countOK, countDone, nextProg,
    progPos,    \* how many values the _progThresholds iterator has given
    log,        \* progress lines and final summary, in emission order
    lsFailed,   \* URLs whose listing call exited non-zero in this run
    cpFailed,   \* elements of dlTasks whose copy exited non-zero in this run
    runNo,      \* which run of the program this is
    prev,       \* the previous run: whether it ended normally with no external
                \* call failing, and for how many tasks it started a copy
    disk0,      \* the local files when this run started
    listed,     \* srmls calls issued in this run: level of the directory, URL
    call        \* a single call of a function of the module: input, result

vars == << scn, disk, dirs, phase, error, pathIdx, hv, lfn, lsSem,
           tasks, dlTasks, pc, nCopy, dlSem, doneQ, countOK, countDone, nextProg,
           progPos, log, lsFailed, cpFailed, runNo, prev, disk0, listed, call >>

config == << scn, disk0, call >>
localFs == << disk, dirs >>
harvestVars == << pathIdx, hv, lfn, lsSem, tasks, lsFailed, listed >>
downloadVars == << dlTasks, pc, nCopy, dlSem, doneQ, countOK, countDone, nextProg,
                   progPos, log, cpFailed >>

NoNode == <<>>
NoCall == [ fn |-> "", in |-> <<>>, out |-> <<>>, returned |-> FALSE ]
IdleLfn == [ st |-> "idle", groups |-> <<>>, k |-> 0, out |-> <<>> ]

\* ------------------------------------------------------------------------
\* Command lines and scenarios
\* ------------------------------------------------------------------------

\* a remote path argument (walked recursively)
RemotePath(path) == [ isfile |-> FALSE, path |-> path, lfns |-> <<>> ]

\* a path argument that is a local file holding logical file names
LfnFile(lfns) == [ isfile |-> TRUE, path |-> << "l" >>, lfns |-> lfns ]

LfnF == << "/","p","/","A","/","f",".","r" >>
LfnH == << "/","p","/","B","/","h",".","r" >>

BaseArgs ==
    [ srm |-> << "s", ":" >>, path |-> << RemotePath(<< "/","p" >>) >>,
      lfn_strip |-> <<>>, dest |-> << "o" >>, dry_run |-> FALSE,
      filter |-> << "*", ".", "r" >>, dirfilter |-> <<>>, max_depth |-> 2,
      nProcesses |-> 1 ]

ListArgs(strip) ==
    [ BaseArgs EXCEPT !.path = << LfnFile(<< LfnF, LfnH >>) >>, !.lfn_strip = strip,
                      !.nProcesses = 2 ]

\* the command line of the wide scenario: a walk of /w to depth 3, then an
\* explicit list
WideArgs ==
    [ BaseArgs EXCEPT !.path = << RemotePath(<< "/","w" >>),
                                 LfnFile(<< << "/","w","/","a","/","f",".","r" >> >>) >>,
                      !.max_depth = 3 ]

\* a walk of /d to depth 3 with --dirfilter T
DeepArgs ==
    [ BaseArgs EXCEPT !.path = << RemotePath(<< "/","d" >>) >>, !.max_depth = 3,
                      !.dirfilter = << << "T" >> >> ]

\* an explicit list of two names of /store/X with --lfn-strip /store/,
\* -o /data/ and the default --filter
StoreArgs ==
    [ BaseArgs EXCEPT !.path = << LfnFile(<< << "/","s","t","o","r","e","/","X","/","a",".","r","o","o","t" >>,
                                            << "/","s","t","o","r","e","/","X","/","b",".","r","o","o","t" >> >>) >>,
                      !.lfn_strip = << << "/","s","t","o","r","e","/" >> >>,
                      !.dest = << "/","d","a","t","a","/" >>,
                      !.filter = << "*",".","r","o","o","t" >>,
                      !.nProcesses = 2 ]

\* a walk of the one directory /b with as many download processes as files
BigArgs(n) ==
    [ BaseArgs EXCEPT !.path = << RemotePath(<< "/","b" >>) >>, !.max_depth = 1,
                      !.nProcesses = n ]

\* The scenarios: a command line, the remote store it runs against, and how
\* many listing calls the environment lets fail in one run.
On14(a) == [ args |-> a, remote |-> Tree14, lsFailMax |-> MaxLsFail ]

MainScenarios ==
    << On14(BaseArgs),
       On14([ BaseArgs EXCEPT !.nProcesses = 2 ]),
       On14([ BaseArgs EXCEPT !.dry_run = TRUE ]),
       On14([ BaseArgs EXCEPT !.max_depth = 1 ]),
       On14(ListArgs(<<>>)),
       On14(ListArgs(<< << "/","p","/" >> >>)),
       On14(ListArgs(<< << "/","p","/","A" >> >>)),
       [ args |-> WideArgs, remote |-> TreeWide, lsFailMax |-> 0 ],
       [ args |-> DeepArgs, remote |-> TreeDeep, lsFailMax |-> MaxLsFail ],
       [ args |-> StoreArgs, remote |-> TreeStore, lsFailMax |-> MaxLsFail ],
       On14(ListArgs(<< << "/","p","/" >>, << "/","p","/","A" >> >>)),
       On14([ ListArgs(<< << "/","p","/" >> >>)
              EXCEPT !.path = << LfnFile(<< LfnH, LfnH >>) >> ]) >>

\* numbers of pending tasks for which the progress loop is run on its own
BigNs == << 37, 60, 100, MaxBig >>

BigScenarios ==
    [ k \in 1..Len(BigNs) |->
        [ args |-> BigArgs(BigNs[k]), remote |-> TreeBig(BigNs[k]), lsFailMax |-> 0 ] ]

Scenarios == MainScenarios \o BigScenarios

\* the parsed command line (read-only during a run)
args == Scenarios[scn].args

\* the remote store
remote == Scenarios[scn].remote

\* how many listing calls the environment lets fail in a run
lsFailMax == Scenarios[scn].lsFailMax

\* ------------------------------------------------------------------------
\* Harvesting, recursive mode
\* ------------------------------------------------------------------------

RECURSIVE FileTasks(_, _, _, _)
\* per selected file, the arguments of its DownloadTask:
\* joinUrl(srm, origBase, path, filePath), joinUrl(destBase, path, filePath),
\* nBytes=fileBytes
FileTasks(a, origBase, n, sel) ==
    IF sel = <<>> THEN <<>>
    ELSE << [ origUrl |-> joinUrl(<< a.srm, origBase, n, Head(sel).ln >>),
              dest |-> joinUrl(<< a.dest, n, Head(sel).ln >>),
              nBytes |-> Head(sel).sz ] >>
         \o FileTasks(a, origBase, n, Tail(sel))

RECURSIVE SubPaths(_, _)
\* joinUrl(path, subdir) for the selected subdirectories
SubPaths(n, subs) ==
    IF subs = <<>> THEN <<>>
    ELSE << joinUrl(<< n, Head(subs).ln >>) >> \o SubPaths(n, Tail(subs))

\* the walk goes below every directory, whatever levels remain
DescendAlways(remainingLevels) == TRUE

\* `if remainingLevels > 0` of harvestDownloadTasks
Descend(remainingLevels) == remainingLevels > 0

\* harvestDownloadTasks at the directory `n` below origBase, once its listing
\* call has returned (ok: with exit code 0): the URL listed, the exit code,
\* the DownloadTasks to construct, in order, and the paths to recurse into
HarvestNode(sc, origBase, n, level, remaining, ok) ==
    The({ The({ The({ The({ The({
        [ url |-> fullPath, rc |-> res.rc,
          todo |-> FileTasks(a, origBase, n, sel),
          kids |-> SubPaths(n, subs) ]
        : sel \in { SelectSeq(ls.files, LAMBDA e : fnFilter(a.filter, e.ln)) },
          subs \in { IF Descend(remaining)
                     THEN SelectSeq(ls.subdirs,
                                    LAMBDA e : dirFilter(a.dirfilter, level, e.ln))
                     ELSE <<>> } })
        : ls \in { list_directory(dirPath, res.out) } })
        : res \in { Srmls(sc.remote, a.srm, fullPath, ok) } })
        : fullPath \in { joinUrl(<< a.srm, dirPath >>) } })
        : a \in { sc.args }, dirPath \in { joinUrl(<< origBase, n >>) } })

\* A branch of the walk when its coroutine is created. The remote store does
\* not change during a run, so what the branch does once its listing call
\* has returned is fixed from the start: `step`, by the outcome of the call.
Node(sc, origBase, n, level, remaining, parent) ==
    [ st |-> "new", level |-> level, remaining |-> remaining,
      out |-> <<>>, kids |-> 0, parent |-> parent,
      step |-> (TRUE :> HarvestNode(sc, origBase, n, level, remaining, TRUE)) @@
               (FALSE :> HarvestNode(sc, origBase, n, level, remaining, FALSE)) ]

\* the srmls call a branch issues in list_directory: the level of its
\* directory below the path argument and the URL listed
LsCall(node) == [ level |-> node.level, url |-> node.step[TRUE].url ]

\* `async with semaphore` in list_directory goes on without waiting
LsSemIgnored == TRUE

LsSemFree == lsSem > 0

\* `async with semaphore` in DownloadTask.run goes on without waiting
DlSemIgnored == TRUE

DlSemFree == dlSem > 0

\* number of listing calls in flight (srmls of the walk, gfal-ls of the list)
LsInFlight ==
    Cardinality({ n \in DOMAIN hv : hv[n].st = "ls" }) + (IF lfn.st = "ls" THEN 1 ELSE 0)

\* number of copy invocations in flight
CopiesInFlight == Cardinality({ i \in DOMAIN pc : pc[i] = "copying" })

RECURSIVE FinishPrepend(_, _)
\* the tasks of a finished branch are put in front of those of its parent
FinishPrepend(h, n) ==
    LET par == h[n].parent
        h1 == [ h EXCEPT ![n].st = "done" ]
    IN  IF par = NoNode THEN h1
        ELSE The({ IF h2[par].kids = 0 THEN FinishPrepend(h2, par) ELSE h2
                   : h2 \in { [ h1 EXCEPT ![par].out = h[n].out \o @,
                                          ![par].kids = @ - 1 ] } })

RECURSIVE Finish(_, _)
\* The generator of node n is exhausted: its list (agen_to_list) completes
\* and the parent's as_completed loop yields its tasks; a parent whose last
\* branch this was is exhausted in turn.
Finish(h, n) ==
    LET par == h[n].parent
        h1 == [ h EXCEPT ![n].st = "done" ]
    IN  IF par = NoNode THEN h1
        ELSE The({ IF h2[par].kids = 0 THEN Finish(h2, par) ELSE h2
                   : h2 \in { [ h1 EXCEPT ![par].out = @ \o h[n].out,
                                          ![par].kids = @ - 1 ] } })

RECURSIVE MakeDirsAll(_, _)
\* for bd in ...: if not os.path.isdir(bd): os.makedirs(bd)
MakeDirsAll(ds, ts) ==
    IF ts = <<>> THEN ds
    ELSE The({ MakeDirsAll(made, Tail(ts))
               : made \in { LET bd == dirname(Head(ts).dest)
                            IN  IF IsDir(ds, bd) THEN ds ELSE MakeDirs(ds, bd) } })

RECURSIVE GroupLfns(_, _)
\* lfn_by_dir of downloadTasksForLFNs: (ldir, names) in first-seen order
GroupLfns(lfns, acc) ==
    IF lfns = <<>> THEN acc
    ELSE LET l == Head(lfns)
             i == RFind(l, "/")
             ldir == IF i >= 0 THEN SubSeq(l, 1, i) ELSE SubSeq(l, 1, Len(l) - 1)
             lbase == From(l, i + 1)
             at == { k \in 1..Len(acc) : acc[k].ldir = ldir }
         IN  GroupLfns(Tail(lfns),
                 IF at = {} THEN Append(acc, [ ldir |-> ldir, fnames |-> << lbase >> ])
                 ELSE [ k \in 1..Len(acc) |->
                          IF k \in at THEN [ acc[k] EXCEPT !.fnames = Append(@, lbase) ]
                          ELSE acc[k] ])

\* main, lines 196-198, after the harvest of one path argument gave ptasks
PathDone(ptasks) ==
    /\ tasks' = tasks \o ptasks
    /\ pathIdx' = pathIdx + 1
    /\ hv' = NoNode
    /\ lfn' = IdleLfn

\* main, lines 186-195: take the next path argument and harvest it up to the
\* first suspension, the listing call of the path itself (through the free
\* semaphore) or the gfal-ls call of the first directory of the list
StartPath ==
    /\ phase = "harvest"
    /\ pathIdx <= Len(args.path)
    /\ hv = NoNode /\ lfn.st = "idle"
    /\ LET a == args.path[pathIdx]
       IN  IF a.isfile
           THEN \E groups \in { GroupLfns(a.lfns, <<>>) } :
                   IF groups = <<>>
                   THEN PathDone(<<>>) /\ UNCHANGED << lsSem, listed >>
                   ELSE /\ lfn' = [ st |-> "ls", groups |-> groups, k |-> 1, out |-> <<>> ]
                        /\ UNCHANGED << pathIdx, hv, tasks, lsSem, listed >>
           ELSE \E root \in { Node(Scenarios[scn], a.path, Dot, 0,
                                    args.max_depth - 1, NoNode) } :
                /\ hv' = ( Dot :> [ root EXCEPT !.st = "ls" ] )
                /\ lsSem' = lsSem - 1
                /\ listed' = listed \cup { LsCall(root) }
                /\ UNCHANGED << pathIdx, lfn, tasks >>
    /\ UNCHANGED << config, localFs, phase, error, lsFailed, downloadVars, runNo, prev >>

\* The event loop runs the coroutines that are ready before it looks at the
\* external processes: a listing or copy call returns only once every newly
\* created coroutine has run to its first suspension.
AllStarted ==
    /\ \A n \in DOMAIN hv : hv[n].st # "new"
    /\ \A i \in DOMAIN pc : pc[i] # "new"

\* The coroutine of branch n (agen_to_list of the recursive
\* harvestDownloadTasks) runs to its first suspension: in list_directory it
\* takes the semaphore and starts the listing call, or waits for the semaphore
NodeStart(n) ==
    /\ phase = "harvest"
    /\ n \in DOMAIN hv /\ hv[n].st = "new"
    /\ IF LsSemFree
       THEN /\ lsSem' = lsSem - 1
            /\ hv' = [ hv EXCEPT ![n].st = "ls" ]
            /\ listed' = listed \cup { LsCall(hv[n]) }
       ELSE /\ hv' = [ hv EXCEPT ![n].st = "wait" ]
            /\ UNCHANGED << lsSem, listed >>
    /\ UNCHANGED << config, localFs, phase, error, pathIdx, lfn, tasks, lsFailed,
                    downloadVars, runNo, prev >>

\* list_directory, `async with semaphore`: a branch waiting for the
\* semaphore gets it and starts its listing call
LsAcquire(n) ==
    /\ phase = "harvest"
    /\ n \in DOMAIN hv /\ hv[n].st = "wait"
    /\ LsSemFree
    /\ lsSem' = lsSem - 1
    /\ hv' = [ hv EXCEPT ![n].st = "ls" ]
    /\ listed' = listed \cup { LsCall(hv[n]) }
    /\ UNCHANGED << config, localFs, phase, error, pathIdx, lfn, tasks, lsFailed,
                    downloadVars, runNo, prev >>

\* The listing call of node n returns: harvestDownloadTasks runs on to its
\* next suspension (tasks for the selected files, then the recursion into
\* the selected subdirectories), and downloadTasksForPath finishes when the
\* walk is exhausted.
LsReturn(n, ok) ==
    /\ phase = "harvest"
    /\ n \in DOMAIN hv /\ hv[n].st = "ls"
    /\ AllStarted
    /\ ok \/ Cardinality(lsFailed) < lsFailMax
    /\ \E res \in { hv[n].step[ok] } :
       \E built \in { BuildTasks(disk, res.todo) } :
       \E kids \in { { res.kids[i] : i \in 1..Len(res.kids) } } :
       \E h1 \in { [ m \in kids |->
                       Node(Scenarios[scn], args.path[pathIdx].path, m,
                            hv[n].level + 1, hv[n].remaining - 1, n) ]
                   @@ [ hv EXCEPT ![n] = [ @ EXCEPT !.st = "sub", !.out = built.tasks,
                                                    !.kids = Cardinality(kids) ] ] } :
       \E h2 \in { IF kids = {} THEN Finish(h1, n) ELSE h1 } :
           /\ lsSem' = lsSem + 1
           /\ lsFailed' = IF res.rc # 0 THEN lsFailed \cup { res.url } ELSE lsFailed
           /\ disk' = built.disk
           /\ IF h2[Dot].st = "done"
              THEN LET ptasks == h2[Dot].out
                   IN  /\ dirs' = IF Len(ptasks) > 0 /\ ~args.dry_run
                                  THEN MakeDirsAll(dirs, ptasks) ELSE dirs
                       /\ PathDone(ptasks)
              ELSE /\ hv' = h2
                   /\ UNCHANGED << dirs, pathIdx, lfn, tasks >>
    /\ UNCHANGED << config, phase, error, listed, downloadVars, runNo, prev >>

\* ------------------------------------------------------------------------
\* Harvesting, explicit-list mode
\* ------------------------------------------------------------------------

\* next(...) with the first prefix as default when none matches
FirstPrefixOrDefault(lfnStrip, ldir) ==
    LET hits == { i \in 1..Len(lfnStrip) : StartsWith(ldir, lfnStrip[i]) }
    IN  IF hits = {} THEN 1 ELSE CHOOSE i \in hits : \A j \in hits : i <= j

\* next(pref for pref in lfnStrip if ldir.startswith(pref)): the index of the
\* first matching prefix, 0 when the generator is exhausted (StopIteration)
FirstPrefix(lfnStrip, ldir) ==
    LET hits == { i \in 1..Len(lfnStrip) : StartsWith(ldir, lfnStrip[i]) }
    IN  IF hits = {} THEN 0 ELSE CHOOSE i \in hits : \A j \in hits : i <= j

\* the directory is placed under dest whole, no prefix removed
DestDirUnstripped(dest, lfnStrip, iPref, ldir) == OsPathJoin(dest, LStrip(ldir, "/"))

\* destDir of downloadTasksForLFNs (lines 167-171), iPref being the index of
\* the prefix found at line 168
DestDir(dest, lfnStrip, iPref, ldir) ==
    IF lfnStrip # <<>>
    THEN OsPathJoin(dest, LStrip(From(ldir, Len(lfnStrip[iPref])), "/"))
    ELSE OsPathJoin(dest, LStrip(ldir, "/"))

RECURSIVE KnownPrefixLen(_, _)
\* how many leading names of fnames are keys of bytes_per_entry
KnownPrefixLen(fnames, known) ==
    IF fnames = <<>> \/ Head(fnames) \notin known THEN 0
    ELSE 1 + KnownPrefixLen(Tail(fnames), known)

RECURSIVE NamedTasks(_, _, _, _, _)
\* per name of the directory, the arguments of its DownloadTask:
\* joinUrl(srm, ldir, fnm), joinUrl(destDir, fnm), nBytes=bytes_per_entry[fnm]
NamedTasks(srm, ldir, destDir, fnames, bytes_per_entry) ==
    IF fnames = <<>> THEN <<>>
    ELSE << [ origUrl |-> joinUrl(<< srm, ldir, Head(fnames) >>),
              dest |-> joinUrl(<< destDir, Head(fnames) >>),
              nBytes |-> bytes_per_entry[Head(fnames)] ] >>
         \o NamedTasks(srm, ldir, destDir, Tail(fnames), bytes_per_entry)

\* The gfal-ls call of the current directory returns (the directories are
\* listed one after the other, without semaphore): lines 166-175 for this
\* directory, then the gfal-ls call of the next directory starts, or
\* downloadTasksForLFNs ends and main continues with lines 196-198.
LfnReturn(ok) ==
    /\ phase = "harvest"
    /\ lfn.st = "ls"
    /\ ok \/ Cardinality(lsFailed) < lsFailMax
    /\ \E g \in { lfn.groups[lfn.k] } :
       \E url \in { joinUrl(<< args.srm, g.ldir >>) } :
       \E res \in { GfalLs(remote, args.srm, url, ok) } :
       \E known \in { { res.out[i].name : i \in 1..Len(res.out) } } :
       \E bytes_per_entry \in { [ nm \in known |->
               LET at == { i \in 1..Len(res.out) : res.out[i].name = nm }
               IN  res.out[CHOOSE i \in at : \A j \in at : j <= i].size ] } :
       \E iPref \in { FirstPrefix(args.lfn_strip, g.ldir) } :
           /\ lsFailed' = IF res.rc # 0 THEN lsFailed \cup { url } ELSE lsFailed
           /\ IF args.lfn_strip # <<>> /\ iPref = 0
              THEN \* line 168 raises
                   /\ phase' = "aborted" /\ error' = "StopIteration"
                   /\ lfn' = [ lfn EXCEPT !.st = "raised" ]
                   /\ UNCHANGED << localFs, pathIdx, hv, tasks >>
              ELSE \E destDir \in { DestDir(args.dest, args.lfn_strip, iPref, g.ldir) } :
                   \E nOk \in { KnownPrefixLen(g.fnames, known) } :
                   \E built \in { BuildTasks(disk,
                                       NamedTasks(args.srm, g.ldir, destDir,
                                                  SubSeq(g.fnames, 1, nOk),
                                                  bytes_per_entry)) } :
                       /\ dirs' = IF ~args.dry_run /\ ~IsDir(dirs, destDir)
                                  THEN MakeDirs(dirs, destDir) ELSE dirs
                       /\ disk' = built.disk
                       /\ IF nOk < Len(g.fnames)
                          THEN \* bytes_per_entry[fnm] at line 175 raises
                               /\ phase' = "aborted" /\ error' = "KeyError"
                               /\ lfn' = [ lfn EXCEPT !.st = "raised",
                                                      !.out = @ \o built.tasks ]
                               /\ UNCHANGED << pathIdx, hv, tasks >>
                          ELSE /\ UNCHANGED << phase, error >>
                               /\ IF lfn.k < Len(lfn.groups)
                                  THEN /\ lfn' = [ lfn EXCEPT !.k = @ + 1,
                                                              !.out = @ \o built.tasks ]
                                       /\ UNCHANGED << pathIdx, hv, tasks >>
                                  ELSE PathDone(lfn.out \o built.tasks)
    /\ UNCHANGED << config, lsSem, listed, downloadVars, runNo, prev >>

\* ------------------------------------------------------------------------
\* Downloading
\* ------------------------------------------------------------------------

\* int(round(num/den)) for num >= 0, den > 0: Python 3 rounds a half to the
\* even neighbour
PyRound(num, den) ==
    LET q == num \div den
        r == num % den
    IN  IF 2 * r < den THEN q
        ELSE IF 2 * r > den THEN q + 1
        ELSE IF q % 2 = 0 THEN q ELSE q + 1

\* [ int(round(x*len(tasks)/100)) for x in range(1,101) ]
progThresholds(n) == [ x \in 1..NProgSteps |-> PyRound(x * n, NProgSteps) ]

\* the test of t._done reads a status that is never set
IsDoneNever(t) == FALSE

\* t._done, as main (line 200) and run (line 111) test it
IsDone(t) == t.done

RECURSIVE NotDoneTwice(_, _)
\* every task that is not done is put on the list twice
NotDoneTwice(ts, i) ==
    IF i > Len(ts) THEN <<>>
    ELSE (IF IsDone(ts[i]) THEN <<>> ELSE << i, i >>) \o NotDoneTwice(ts, i + 1)

RECURSIVE NotDone(_, _)
\* [ t for t in tasks if not t._done ], as indices into ts from i on
NotDone(ts, i) ==
    IF i > Len(ts) THEN <<>>
    ELSE (IF IsDone(ts[i]) THEN <<>> ELSE << i >>) \o NotDone(ts, i + 1)

RECURSIVE SumBytes(_, _)
\* sum(t.nBytes for t in tasks if not t._done), over the indices todo
SumBytes(ts, todo) ==
    IF todo = <<>> THEN 0 ELSE ts[Head(todo)].nBytes + SumBytes(ts, Tail(todo))

\* the download loop is entered whenever a task is pending, dry run or not
EntersDownloadAlways(todo) == Len(todo) > 0

\* `if len(tasks) > 0 and not args.dry_run`
EntersDownload(todo) == Len(todo) > 0 /\ ~args.dry_run

\* main goes on to the downloads once the first path argument is harvested
HarvestOverAfterFirst == pathIdx > 1

\* the loop `for path in args.path` (lines 186-198) has ended
HarvestOver == pathIdx > Len(args.path)

\* main, lines 199-208: all paths are harvested; the number and bytes of the
\* tasks still to download are logged; keep the tasks that are not
\* done and set up the download loop, or return when there is nothing to do
\* or this is a dry run
Launch ==
    /\ phase = "harvest"
    /\ HarvestOver
    /\ LET todo == NotDone(tasks, 1)
       IN  /\ dlTasks' = todo
           /\ log' = Append(log, [ kind |-> "pending", files |-> Len(todo),
                                   bytes |-> SumBytes(tasks, todo) ])
           /\ IF EntersDownload(todo)
              THEN /\ phase' = "download"
                   /\ dlSem' = args.nProcesses
                   /\ countOK' = 0 /\ countDone' = 0
                   /\ nextProg' = progThresholds(Len(todo))[1]
                   /\ progPos' = 1
                   /\ pc' = [ i \in 1..Len(todo) |-> "new" ]
                   /\ nCopy' = [ i \in 1..Len(todo) |-> 0 ]
              ELSE /\ phase' = "done"
                   /\ UNCHANGED << dlSem, countOK, countDone, nextProg, progPos, pc, nCopy >>
    /\ UNCHANGED << config, localFs, error, harvestVars, doneQ, cpFailed, runNo, prev >>

\* subproc_check_call is entered: the copy invocation of dlTasks[i] starts
StartCopy(i) ==
    /\ dlSem' = dlSem - 1
    /\ pc' = [ pc EXCEPT ![i] = "copying" ]
    /\ nCopy' = [ nCopy EXCEPT ![i] = @ + 1 ]

\* DownloadTask.run up to its first suspension: an already done task returns
\* at once; otherwise the destination directory is made and the semaphore is
\* taken, or waited for
RunStart(i) ==
    /\ phase = "download"
    /\ i \in DOMAIN pc /\ pc[i] = "new"
    /\ LET t == tasks[dlTasks[i]]
       IN  IF IsDone(t)
           THEN /\ pc' = [ pc EXCEPT ![i] = "returned" ]
                /\ doneQ' = Append(doneQ, [ i |-> i, stat |-> "OK", msg |-> "Already downloaded" ])
                /\ UNCHANGED << dirs, dlSem, nCopy >>
           ELSE /\ dirs' = IF IsDir(dirs, dirname(t.dest)) THEN dirs
                           ELSE MakeDirs(dirs, dirname(t.dest))
                /\ IF DlSemFree
                   THEN StartCopy(i)
                   ELSE /\ pc' = [ pc EXCEPT ![i] = "waiting" ]
                        /\ UNCHANGED << dlSem, nCopy >>
                /\ UNCHANGED doneQ
    /\ UNCHANGED << config, disk, phase, error, harvestVars, dlTasks, countOK, countDone,
                    nextProg, progPos, log, cpFailed, runNo, prev >>

\* a run() waiting in `async with semaphore` gets the semaphore
RunAcquire(i) ==
    /\ phase = "download"
    /\ i \in DOMAIN pc /\ pc[i] = "waiting"
    /\ DlSemFree
    /\ StartCopy(i)
    /\ UNCHANGED << config, localFs, phase, error, harvestVars, dlTasks, doneQ, countOK,
                    countDone, nextProg, progPos, log, cpFailed, runNo, prev >>

\* What a copy invocation leaves on the local disk: the whole file when it
\* exits 0 ("ok"); nothing new ("fail") or a truncated file ("partial") when
\* it exits non-zero
CopyOutcomes == { "ok", "fail", "partial" }

\* a copy invocation that leaves nothing at the destination
AfterCopyLost(dk, t, outcome) == dk

AfterCopy(dk, t, outcome) ==
    IF outcome = "ok" THEN (Resolved(t.dest) :> t.nBytes) @@ dk
    ELSE IF outcome = "partial" THEN (Resolved(t.dest) :> t.nBytes - 1) @@ dk
    ELSE dk

\* what run() returns after the copy invocation exited with code rc
RunResult(i, rc) == [ i |-> i, stat |-> "OK", msg |-> "Downloaded" ]

\* The copy invocation of dlTasks[i] exits: subproc_check_call logs a
\* non-zero code and returns, the semaphore is released, run() marks the
\* task done and returns
CopyExit(i, outcome) ==
    /\ phase = "download"
    /\ i \in DOMAIN pc /\ pc[i] = "copying"
    /\ AllStarted
    /\ outcome \in CopyOutcomes
    /\ outcome = "ok" \/ Cardinality(cpFailed) < MaxCpFail
    /\ outcome = "partial" => tasks[dlTasks[i]].nBytes > 0
    /\ disk' = AfterCopy(disk, tasks[dlTasks[i]], outcome)
    /\ cpFailed' = IF outcome = "ok" THEN cpFailed ELSE cpFailed \cup { i }
    /\ dlSem' = dlSem + 1
    /\ tasks' = [ tasks EXCEPT ![dlTasks[i]].done = TRUE ]
    /\ pc' = [ pc EXCEPT ![i] = "returned" ]
    /\ doneQ' = Append(doneQ, RunResult(i, IF outcome = "ok" THEN 0 ELSE 1))
    /\ UNCHANGED << config, dirs, phase, error, pathIdx, hv, lfn, lsSem, lsFailed, listed, dlTasks,
                    nCopy, countOK, countDone, nextProg, progPos, log, runNo, prev >>

\* the progress line giving the percentage where the count belongs
ProgressLinePercent(done, total, ok) ==
    [ kind |-> "progress", done |-> (100 * done) \div total, total |-> total, ok |-> ok ]

\* "Finished {0:d}/{1:d} downloads ({2:d} successful)" (line 219)
ProgressLine(done, total, ok) ==
    [ kind |-> "progress", done |-> done, total |-> total, ok |-> ok ]

\* the loop counting against the unfiltered task list
ExhaustedOfAll(done) == done = Len(tasks)

\* the for loop over as_completed ends: every run() of the filtered task
\* list has been yielded
Exhausted(done) == done = Len(dlTasks)

\* main, lines 209-224: as_completed yields the next finished run(); it is
\* counted, a progress line is logged when the count meets nextProg, and
\* after the last one the summary is logged and main returns
Collect ==
    /\ phase = "download"
    /\ doneQ # <<>>
    /\ LET r == Head(doneQ)
           done == countDone + 1
           ok == IF r.stat # "OK" THEN countOK ELSE countOK + 1
           hit == done = nextProg
           line == ProgressLine(done, Len(dlTasks), ok)
           log1 == IF hit THEN Append(log, line) ELSE log
       IN  /\ doneQ' = Tail(doneQ)
           /\ pc' = [ pc EXCEPT ![r.i] = "counted" ]
           /\ countDone' = done
           /\ countOK' = ok
           /\ IF hit /\ progPos < NProgSteps
              THEN /\ nextProg' = progThresholds(Len(dlTasks))[progPos + 1]
                   /\ progPos' = progPos + 1
              ELSE UNCHANGED << nextProg, progPos >>
           /\ IF Exhausted(done)
              THEN /\ log' = Append(log1, [ kind |-> "summary", done |-> done,
                                           total |-> Len(dlTasks), ok |-> ok ])
                   /\ phase' = "done"
              ELSE /\ log' = log1
                   /\ UNCHANGED phase
    /\ UNCHANGED << config, localFs, error, harvestVars, dlTasks, nCopy, dlSem, cpFailed,
                    runNo, prev >>

\* ------------------------------------------------------------------------
\* Initial states and specifications
\* ------------------------------------------------------------------------

\* local files before the first run: nothing, or o/A/f.r (100 bytes on the
\* remote side) smaller than, as large as, or larger than the remote file;
\* nothing in the scenario of the wide tree
LocalF == Resolved(<< "o","/","A","/","f",".","r" >>)

DiskSet == { <<>> } \cup { (LocalF :> sz) : sz \in { 99, 100, 101 } }

DirsOf(dk) == UNION { { SubSeq(f, 1, k) : k \in 1..(Len(f) - 1) } : f \in DOMAIN dk }

\* the state of the program when main starts
Fresh ==
    /\ phase = "harvest" /\ error = ""
    /\ pathIdx = 1 /\ hv = NoNode /\ lfn = IdleLfn
    /\ lsSem = LsSemaphoreSize
    /\ tasks = <<>> /\ dlTasks = <<>> /\ pc = <<>> /\ nCopy = <<>>
    /\ dlSem = 0 /\ doneQ = <<>>
    /\ countOK = 0 /\ countDone = 0 /\ nextProg = 0 /\ progPos = 0
    /\ log = <<>>
    /\ lsFailed = {} /\ cpFailed = {}
    /\ listed = {}

Init ==
    /\ scn \in 1..Len(MainScenarios)
    /\ disk \in IF remote = Tree14 THEN DiskSet ELSE { <<>> }
    /\ dirs = DirsOf(disk)
    /\ disk0 = disk
    /\ Fresh
    /\ runNo = 1
    /\ prev = [ clean |-> FALSE, copies |-> 0 ]
    /\ call = NoCall

Next ==
    \/ StartPath
    \/ \E n \in DOMAIN hv : NodeStart(n)
    \/ \E n \in DOMAIN hv : LsAcquire(n)
    \/ \E n \in DOMAIN hv, ok \in BOOLEAN : LsReturn(n, ok)
    \/ \E ok \in BOOLEAN : LfnReturn(ok)
    \/ Launch
    \/ \E i \in DOMAIN pc : RunStart(i)
    \/ \E i \in DOMAIN pc : RunAcquire(i)
    \/ \E i \in DOMAIN pc, outcome \in CopyOutcomes : CopyExit(i, outcome)
    \/ Collect

Spec == Init /\ [][Next]_vars

\* every external call that is started returns, and the event loop runs
\* every coroutine that can run
FairSpec == Spec /\ WF_vars(Next)

\* The program is started again with the same command line, on the local
\* disk the previous run left, against the unchanged remote store.
Rerun ==
    /\ phase \in { "done", "aborted" }
    /\ runNo < MaxRuns
    /\ runNo' = runNo + 1
    /\ prev' = [ clean |-> phase = "done" /\ lsFailed = {} /\ cpFailed = {},
                 copies |-> Cardinality({ i \in DOMAIN nCopy : nCopy[i] > 0 }) ]
    /\ phase' = "harvest" /\ error' = ""
    /\ pathIdx' = 1 /\ hv' = NoNode /\ lfn' = IdleLfn
    /\ lsSem' = LsSemaphoreSize
    /\ tasks' = <<>> /\ dlTasks' = <<>> /\ pc' = <<>> /\ nCopy' = <<>>
    /\ dlSem' = 0 /\ doneQ' = <<>>
    /\ countOK' = 0 /\ countDone' = 0 /\ nextProg' = 0 /\ progPos' = 0
    /\ log' = <<>>
    /\ lsFailed' = {} /\ cpFailed' = {}
    /\ listed' = {}
    /\ disk0' = disk
    /\ UNCHANGED << scn, call, localFs >>

NextTwice == Next \/ Rerun

\* joinUrl on its own: the parts it is called with are drawn from path
\* segments with and without slashes and dots
Segments ==
    { << "a" >>, << "a", "/" >>, << "/", "a" >>, << ".", "/" >>, << "." >>, << "b" >>,
      <<>>, << "/" >> }

PartsOfLen(n) == [ 1..n -> Segments ]

InitJoin ==
    /\ scn = 1
    /\ disk = <<>> /\ dirs = {} /\ disk0 = <<>>
    /\ Fresh
    /\ runNo = 1
    /\ prev = [ clean |-> FALSE, copies |-> 0 ]
    /\ \E n \in 0..MaxParts :
          call \in { [ fn |-> "joinUrl", in |-> parts, out |-> <<>>, returned |-> FALSE ]
                     : parts \in PartsOfLen(n) }

\* joinUrl(*parts) is called and returns, or raises ValueError
CallJoinUrl ==
    /\ call.fn = "joinUrl" /\ ~call.returned
    /\ call' = [ call EXCEPT !.out = joinUrl(call.in), !.returned = TRUE ]
    /\ UNCHANGED << scn, disk0, localFs, phase, error, harvestVars, downloadVars,
                    runNo, prev >>

NextJoin == CallJoinUrl

\* The download loop on its own, for larger numbers of tasks: a run on a
\* directory of n files with n download processes and an empty destination
\* has harvested, launched and copied every file without failure, and every
\* run() has returned before as_completed yields the first of them.
InitProgress ==
    /\ scn \in (Len(MainScenarios) + 1)..Len(Scenarios)
    /\ \E origBase \in { args.path[1].path } :
       \E files \in { remote[origBase \o Slash] } :
       \E built \in { [ k \in DOMAIN files |->
                          DownloadTask(<<>>,
                                       joinUrl(<< args.srm, origBase, Dot, files[k][2] >>),
                                       joinUrl(<< args.dest, Dot, files[k][2] >>),
                                       files[k][1]).task ] } :
          /\ tasks = [ k \in DOMAIN built |-> [ built[k] EXCEPT !.done = TRUE ] ]
          /\ disk = [ f \in { Resolved(built[k].dest) : k \in DOMAIN built } |-> 1 ]
          /\ listed = { [ level |-> 0,
                          url |-> joinUrl(<< args.srm, joinUrl(<< origBase, Dot >>) >>) ] }
          /\ dlTasks = [ k \in DOMAIN built |-> k ]
          /\ pc = [ k \in DOMAIN built |-> "returned" ]
          /\ nCopy = [ k \in DOMAIN built |-> 1 ]
          /\ doneQ = [ k \in DOMAIN built |-> RunResult(k, 0) ]
          /\ dlSem = args.nProcesses
          /\ nextProg = progThresholds(Len(built))[1]
          \* every file of the directory has one byte
          /\ log = << [ kind |-> "pending", files |-> Len(built), bytes |-> Len(built) ] >>
    /\ dirs = DirsOf(disk)
    /\ disk0 = <<>>
    /\ phase = "download" /\ error = ""
    /\ pathIdx = 2 /\ hv = NoNode /\ lfn = IdleLfn
    /\ lsSem = LsSemaphoreSize
    /\ countOK = 0 /\ countDone = 0 /\ progPos = 1
    /\ lsFailed = {} /\ cpFailed = {}
    /\ runNo = 1
    /\ prev = [ clean |-> FALSE, copies |-> 0 ]
    /\ call = NoCall

NextProgress == Collect

SpecProgress == InitProgress /\ [][NextProgress]_vars

SpecJoin == InitJoin /\ [][NextJoin]_vars

SpecTwice == Init /\ [][NextTwice]_vars

\* ------------------------------------------------------------------------
\* Properties
\* ------------------------------------------------------------------------

\* the DownloadTasks constructed so far in this run: those main holds and
\* those still held by the generators of the harvest in progress
Harvested ==
    { tasks[k] : k \in DOMAIN tasks }
    \cup { lfn.out[k] : k \in DOMAIN lfn.out }
    \cup UNION { { hv[n].out[k] : k \in DOMAIN hv[n].out } : n \in DOMAIN hv }

\* the positions (in tasks) of the tasks main handed to the download loop
Launched == { dlTasks[i] : i \in DOMAIN dlTasks }

\* C1: at every moment the number of copy invocations in flight is at most
\* the download concurrency limit D (args.nProcesses).
C1_CopiesWithinLimit == CopiesInFlight <= args.nProcesses

\* D = 2 copies are in flight and a third task waits for the semaphore
C1_Witness ==
    /\ args.nProcesses = 2
    /\ CopiesInFlight = 2
    /\ \E i \in DOMAIN pc : pc[i] = "waiting"

\* C2: during the recursive walk the number of listing calls in flight is at
\* most the listing limit L (10), counted over all branches and depths.
C2_ListingsWithinLimit == LsInFlight <= LsSemaphoreSize

\* L listings are in flight, at two different depths of the tree, while
\* another branch waits for the semaphore
C2_Witness ==
    /\ LsInFlight = LsSemaphoreSize
    /\ \E n \in DOMAIN hv : hv[n].st = "wait"
    /\ \E n, m \in DOMAIN hv :
          hv[n].st = "ls" /\ hv[m].st = "ls" /\ hv[n].level # hv[m].level

\* C3: a copy invocation is only ever started for a task that is not Done:
\* in no step does the number of copies started for a task grow while the
\* task is Done, so a task classified Done at construction is never copied.
C3_DoneNeverCopied ==
    [][ \A i \in DOMAIN nCopy :
          (i \in DOMAIN nCopy' /\ nCopy'[i] > nCopy[i]) => ~tasks[dlTasks[i]].done ]_vars

\* a run that copied something has ended, and a task that was Done at
\* construction was never handed to the download loop
C3_Witness ==
    /\ phase = "done"
    /\ \E i \in DOMAIN nCopy : nCopy[i] > 0
    /\ \E k \in DOMAIN tasks : tasks[k].done /\ k \notin Launched

\* C4: a task whose copy exits non-zero is reported as failed, not counted
\* as successful, while every other task is still executed and counted.
C4_FailedCopyNotSuccessful ==
    /\ countOK <= Cardinality({ i \in DOMAIN pc : pc[i] = "counted" /\ i \notin cpFailed })
    /\ (phase = "done" => \A i \in DOMAIN pc : pc[i] = "counted")

\* C5: constructing a task classifies it against the local file at its
\* destination: no file, Pending and nothing changed; a file of at least
\* nBytes, Done and the file untouched; a smaller file, the file is deleted
\* and the task is Pending.
C5_Classification ==
    [][ phase = "harvest" =>
          \A t \in Harvested' \ Harvested :
             LET f == Resolved(t.dest)
             IN  IF f \notin DOMAIN disk
                 THEN ~t.done /\ f \notin DOMAIN disk'
                 ELSE IF disk[f] >= t.nBytes
                 THEN t.done /\ f \in DOMAIN disk' /\ disk'[f] = disk[f]
                 ELSE ~t.done /\ f \notin DOMAIN disk' ]_vars

\* a Done task whose local file is larger than the remote one, next to a
\* Pending task, both constructed in the harvest in progress
C5_Witness ==
    /\ phase = "harvest"
    /\ \E t \in Harvested :
          t.done /\ Resolved(t.dest) \in DOMAIN disk /\ disk[Resolved(t.dest)] > t.nBytes
    /\ \E t \in Harvested : ~t.done /\ Resolved(t.dest) \notin DOMAIN disk

ProgressLines == SelectSeq(log, LAMBDA e : e.kind = "progress")

SummaryLines == SelectSeq(log, LAMBDA e : e.kind = "summary")

\* C7: when the download loop over N tasks has ended, the progress lines
\* carry exactly the distinct completed-counts round(i*N/100), i = 1..100,
\* each once and in increasing order, the last of them N.
C7_ProgressLines ==
    (phase = "done" /\ pc # <<>>) =>
        LET N == Len(dlTasks)
            counts == { progThresholds(N)[x] : x \in 1..NProgSteps } \ { 0 }
            lines == ProgressLines
        IN  /\ { lines[k].done : k \in DOMAIN lines } = counts
            /\ \A j, k \in DOMAIN lines : j < k => lines[j].done < lines[k].done
            /\ lines # <<>> /\ lines[Len(lines)].done = N

\* C8: every run ends; a run that is no dry run and whose harvest ends
\* without fatal error with at least one pending task goes on to emit the
\* final summary, once, and at that point every pending task has been
\* counted as completed exactly once.
C8_SummaryAfterDownload ==
    /\ <>(phase \in { "done", "aborted" })
    /\ (phase = "download") ~> (phase = "done" /\ Len(SummaryLines) = 1)
    /\ []((phase = "done" /\ dlTasks # <<>> /\ ~args.dry_run) => Len(SummaryLines) = 1)
    /\ [](SummaryLines # <<>> =>
            /\ phase = "done" /\ Len(SummaryLines) = 1
            /\ countDone = Len(dlTasks)
            /\ \A i \in DOMAIN pc : pc[i] = "counted"
            /\ SummaryLines[1].total = Len(dlTasks)
            /\ SummaryLines[1].ok = countOK)

\* the summary of a download of several tasks, one of whose copies failed
C8_Witness ==
    /\ phase = "done" /\ Len(SummaryLines) = 1
    /\ Len(dlTasks) >= 2 /\ cpFailed # {}
    /\ countDone = Len(dlTasks)

\* C8 as the specification states it: every run that has ended has emitted
\* the final summary.
C8_EveryRunSummarised == phase \in { "done", "aborted" } => Len(SummaryLines) = 1

\* some name of an explicit list has a parent directory that starts with
\* none of the configured prefixes
Unresolved ==
    /\ args.lfn_strip # <<>>
    /\ \E p \in DOMAIN args.path :
          /\ args.path[p].isfile
          /\ LET groups == GroupLfns(args.path[p].lfns, <<>>)
             IN  \E g \in DOMAIN groups :
                    \A i \in DOMAIN args.lfn_strip :
                       ~StartsWith(groups[g].ldir, args.lfn_strip[i])

\* C9: with prefixes configured and a name whose parent directory starts
\* with none of them, the run aborts with a fatal error during harvesting,
\* and no copy is started for any task.
C9_UnresolvedPrefixAborts ==
    /\ [](Unresolved => phase \in { "harvest", "aborted" } /\ pc = <<>>)
    /\ [](error = "StopIteration" => Unresolved /\ phase = "aborted")
    /\ (Unresolved ~> phase = "aborted")

\* the run was aborted at the unmatched directory after a task had been
\* constructed for a name of a matched directory; nothing was copied
C9_Witness ==
    /\ phase = "aborted" /\ error = "StopIteration"
    /\ lfn.out # <<>>
    /\ pc = <<>>

\* C10: a listing call that exits non-zero yields an empty result for its
\* directory and is not escalated: it never aborts the run.
C10_FailedListingNotFatal ==
    lsFailed # {} => ~(phase = "aborted" /\ error = "KeyError")

RECURSIVE WalkDepth(_, _, _)
\* how many levels of directories the remote store has from directory d (at
\* level `level` of the walk) downwards, following only subdirectories the
\* directory selector accepts
WalkDepth(rem, d, level) ==
    IF d \notin DOMAIN rem THEN 0
    ELSE LET below == { WalkDepth(rem, d \o rem[d][i][2], level + 1) :
                          i \in { j \in DOMAIN rem[d] :
                                    /\ EndsWith(rem[d][j][2], Slash)
                                    /\ dirFilter(args.dirfilter, level, rem[d][j][2]) } }
         IN  1 + (IF below = {} THEN 0 ELSE CHOOSE m \in below : \A k \in below : k <= m)

\* the first path argument is a remote path and its walk has ended
WalkEnded == ~args.path[1].isfile /\ pathIdx > 1

\* the levels at which this run has issued listing calls
ListedLevels == { c.level : c \in listed }

\* the depth of the remote store below the first path argument
DepthBelowPath == WalkDepth(remote, RStrip(args.path[1].path, "/") \o Slash, 0)

\* C11: no listing call is ever issued for a directory max-depth or more
\* levels below the starting path (with max-depth = 1 only the starting path
\* is listed); and when the walk has ended with every listing call exiting
\* zero on a store at least max-depth levels deep along accepted directories,
\* listing calls were issued at exactly the levels 0 .. max-depth - 1.
C11_DepthLimit ==
    /\ \A c \in listed : c.level <= args.max_depth - 1
    /\ (args.max_depth = 1 /\ WalkEnded) => Cardinality(listed) = 1
    /\ (WalkEnded /\ lsFailed = {} /\ DepthBelowPath >= args.max_depth)
          => ListedLevels = 0..(args.max_depth - 1)

\* a walk with max-depth = 3 has ended on a store that is deeper than three
\* levels: three levels were listed and the fourth was not
C11_Witness ==
    /\ args.max_depth = 3 /\ WalkEnded /\ lsFailed = {}
    /\ DepthBelowPath > 3
    /\ ListedLevels = 0..2

\* the DownloadTasks constructed so far by the walk of the first path argument
WalkTasks ==
    UNION { { hv[n].out[k] : k \in DOMAIN hv[n].out } : n \in DOMAIN hv }
    \cup (IF ~args.path[1].isfile /\ pathIdx <= 2
          THEN { tasks[k] : k \in DOMAIN tasks } ELSE {})

\* the names of the directories from the first path argument (exclusive) down
\* to the directory or file a URL names (inclusive)
BelowPath(url) ==
    Components(Split(From(url, Len(joinUrl(<< args.srm, args.path[1].path >>))), Slash))

\* no --dirfilter pattern matches the directory name
NoDirPatternMatches(name) ==
    args.dirfilter # <<>> /\ \A i \in DOMAIN args.dirfilter : ~fnmatchcase(name, args.dirfilter[i])

\* the --filter pattern does not match the file name, or it is the one
\* excluded name
FileRejected(name) == ~fnmatchcase(name, args.filter) \/ name = ExcludedName

\* C12: a directory that DirectorySelector rejects at level 1 (a subdirectory
\* of a directory of level 1 whose name matches no --dirfilter pattern) is
\* never listed, nor is any directory below it, and no task is made for a
\* file in or below it; a file whose name FileSelector rejects never gets a
\* task in a recursive walk.
C12_Filtering ==
    /\ \A c \in listed :
          Len(BelowPath(c.url)) >= 2 => ~NoDirPatternMatches(BelowPath(c.url)[2])
    /\ \A t \in WalkTasks :
          /\ Len(BelowPath(t.origUrl)) >= 3 => ~NoDirPatternMatches(BelowPath(t.origUrl)[2])
          /\ ~FileRejected(basename(t.origUrl))

\* a walk with --dirfilter has ended after listing a directory of level 1
\* that holds a rejected subdirectory next to an accepted one that was
\* listed, and a directory that holds a rejected file next to accepted ones
C12_Witness ==
    /\ WalkEnded /\ lsFailed = {} /\ tasks # <<>>
    /\ \E c \in listed :
          /\ c.level = 1
          /\ NoDirPatternMatches(BelowPath(c.url)[1])
          /\ \E i \in DOMAIN remote[RemoteDir(args.srm, c.url)] :
                LET e == remote[RemoteDir(args.srm, c.url)][i]
                IN  EndsWith(e[2], Slash) /\ NoDirPatternMatches(RStrip(e[2], "/"))
    /\ \E c \in listed : c.level = 2
    /\ \E c \in listed :
          \E i \in DOMAIN remote[RemoteDir(args.srm, c.url)] :
             LET e == remote[RemoteDir(args.srm, c.url)][i]
             IN  ~EndsWith(e[2], Slash) /\ FileRejected(e[2])

\* the "Still to download in total" lines of the log
PendingLines == SelectSeq(log, LAMBDA e : e.kind = "pending")

\* C13: in a dry run no copy invocation is ever started and the download
\* loop is never entered; the harvest and the classification of every task
\* run, and when main returns it has reported the number and the bytes of
\* the pending tasks.
C13_DryRunNeverCopies ==
    args.dry_run =>
        /\ phase # "download"
        /\ pc = <<>> /\ nCopy = <<>> /\ CopiesInFlight = 0
        /\ ProgressLines = <<>> /\ SummaryLines = <<>>
        /\ phase = "done" =>
              /\ Len(PendingLines) = 1
              /\ PendingLines[1].files = Cardinality({ k \in DOMAIN tasks : ~tasks[k].done })
              /\ PendingLines[1].bytes = SumBytes(tasks, dlTasks)
              /\ \A k \in DOMAIN tasks : tasks[k].done <=> k \notin Launched

\* a dry run has ended: it found one task Done and others Pending, reported
\* the pending ones and copied nothing
C13_Witness ==
    /\ args.dry_run /\ phase = "done"
    /\ \E k \in DOMAIN tasks : tasks[k].done
    /\ Len(PendingLines) = 1 /\ PendingLines[1].files >= 2 /\ PendingLines[1].bytes > 0
    /\ pc = <<>>

\* the files of the remote store: directory and position in its listing
RemoteFiles ==
    UNION { { << d, i >> : i \in { j \in DOMAIN remote[d] :
                                     ~EndsWith(remote[d][j][2], Slash) } }
            : d \in DOMAIN remote }

RECURSIVE RemoteBytes(_)
\* the sum of the sizes of a set of remote files
RemoteBytes(fs) ==
    IF fs = {} THEN 0
    ELSE LET f == CHOOSE x \in fs : TRUE
         IN  remote[f[1]][f[2]][1] + RemoteBytes(fs \ { f })

\* every path argument is a remote path, and every file of the remote store
\* matches the file filter and lies where the walk gets: in a directory less
\* than max-depth levels below the path that no directory filter cuts off
AllFilesInReach ==
    /\ \A p \in DOMAIN args.path : ~args.path[p].isfile
    /\ \A f \in RemoteFiles :
          LET below == BelowPath(joinUrl(<< args.srm, f[1] >>))
          IN  /\ ~FileRejected(remote[f[1]][f[2]][2])
              /\ Len(below) <= args.max_depth - 1
              /\ Len(below) >= 2 => ~NoDirPatternMatches(below[2])

\* C14: for a remote store all of whose files are in reach of the walk, an
\* empty destination, and listing and copy calls that all succeed, a run
\* that is no dry run ends with exactly one task per remote file, each
\* copied once and present at its destination with its remote size, the
\* summary N/N, and the reported bytes equal to the sum of the remote sizes
\* (3 tasks, 3/3 and 350 bytes for files of 100, 200 and 50 bytes).
C14_EndToEnd ==
    ( /\ phase = "done" /\ ~args.dry_run /\ disk0 = <<>>
      /\ lsFailed = {} /\ cpFailed = {} /\ AllFilesInReach )
    => LET N == Cardinality(RemoteFiles)
       IN  /\ Len(tasks) = N /\ Len(dlTasks) = N
           /\ { tasks[k].origUrl : k \in DOMAIN tasks }
                = { joinUrl(<< args.srm, f[1], remote[f[1]][f[2]][2] >>) : f \in RemoteFiles }
           /\ \A i \in DOMAIN nCopy : nCopy[i] = 1
           /\ \A k \in DOMAIN tasks :
                 /\ Resolved(tasks[k].dest) \in DOMAIN disk
                 /\ disk[Resolved(tasks[k].dest)] = tasks[k].nBytes
           /\ Len(SummaryLines) = 1
           /\ SummaryLines[1].ok = N /\ SummaryLines[1].total = N
           /\ Len(PendingLines) = 1
           /\ PendingLines[1].files = N
           /\ PendingLines[1].bytes = RemoteBytes(RemoteFiles)
           /\ remote = Tree14 => (N = 3 /\ PendingLines[1].bytes = 350)

\* the run on the store with files of 100, 200 and 50 bytes in two
\* subdirectories has ended: 3/3 downloads, 350 bytes
C14_Witness ==
    /\ phase = "done" /\ ~args.dry_run /\ disk0 = <<>>
    /\ lsFailed = {} /\ cpFailed = {} /\ AllFilesInReach
    /\ remote = Tree14 /\ args.max_depth = 2
    /\ Len(SummaryLines) = 1 /\ SummaryLines[1].ok = 3 /\ SummaryLines[1].total = 3
    /\ PendingLines[1].bytes = 350

\* every path argument is a file of logical names
AllLists == \A p \in DOMAIN args.path : args.path[p].isfile

\* the logical names of the command line's lists
Lfns == UNION { { args.path[p].lfns[i] : i \in DOMAIN args.path[p].lfns } : p \in DOMAIN args.path }

RECURSIVE LfnEntries(_)
\* how many names the lists of the path arguments from p on hold, a name
\* counted as often as it is listed
LfnEntries(p) ==
    IF p > Len(args.path) THEN 0 ELSE Len(args.path[p].lfns) + LfnEntries(p + 1)

\* the DownloadTasks constructed so far in explicit-list mode
ListTasks ==
    { lfn.out[k] : k \in DOMAIN lfn.out }
    \cup (IF AllLists THEN { tasks[k] : k \in DOMAIN tasks } ELSE {})

\* C15: in explicit-list mode every task belongs to a name of the list; its
\* origin is the remote root joined with the full name, and when prefixes are
\* configured its destination is the destination root, then the parent
\* directory without a configured prefix it starts with, then the file name
\* (/store/X/a.root with prefix /store/ and root /data/: /data/X/a.root);
\* a list harvested without failure gives one task per name listed.
C15_ListDestination ==
    /\ \A t \in ListTasks :
          \E l \in Lfns :
             LET ldir == SubSeq(l, 1, RFind(l, "/"))
                 fnm == From(l, RFind(l, "/") + 1)
             IN  /\ t.origUrl = RStrip(args.srm, "/") \o Slash \o LStrip(l, "/")
                 /\ args.lfn_strip # <<>> =>
                       \E i \in DOMAIN args.lfn_strip :
                          /\ StartsWith(ldir, args.lfn_strip[i])
                          /\ Resolved(t.dest) =
                                Resolved(args.dest)
                                \o Components(Split(From(ldir, Len(args.lfn_strip[i])), Slash))
                                \o << fnm >>
    /\ remote = TreeStore =>
          \A t \in ListTasks :
             \/ /\ t.origUrl = << "s",":","/","s","t","o","r","e","/","X","/","a",".","r","o","o","t" >>
                /\ t.dest = << "/","d","a","t","a","/","X","/","a",".","r","o","o","t" >>
             \/ /\ t.origUrl = << "s",":","/","s","t","o","r","e","/","X","/","b",".","r","o","o","t" >>
                /\ t.dest = << "/","d","a","t","a","/","X","/","b",".","r","o","o","t" >>
    /\ (AllLists /\ pathIdx > Len(args.path) /\ lsFailed = {})
          => Len(tasks) = LfnEntries(1)

\* the list /store/X/a.root, /store/X/b.root has been harvested with prefix
\* /store/ and destination root /data/
C15_Witness ==
    /\ remote = TreeStore /\ args.lfn_strip = << << "/","s","t","o","r","e","/" >> >>
    /\ pathIdx > Len(args.path)
    /\ { tasks[k].dest : k \in DOMAIN tasks }
         = { << "/","d","a","t","a","/","X","/","a",".","r","o","o","t" >>,
             << "/","d","a","t","a","/","X","/","b",".","r","o","o","t" >> }

\* the parts without the one at position i
WithoutPart(parts, i) == SubSeq(parts, 1, i - 1) \o SubSeq(parts, i + 1, Len(parts))

\* C16: joinUrl("a/", "./", "b") and joinUrl("a", "b") give the same result;
\* a single part is returned unchanged; no part at all is a ValueError; and
\* a part other than the first that is "." once its slashes are stripped can
\* be left out without changing the result.
C16_JoinUrl ==
    call.returned =>
        /\ Len(call.in) = 0 => call.out = ValueError
        /\ Len(call.in) = 1 => call.out = call.in[1]
        /\ call.in = << << "a", "/" >>, << ".", "/" >>, << "b" >> >>
              => call.out = joinUrl(<< << "a" >>, << "b" >> >>)
        /\ call.in = << << "a" >>, << "b" >> >> => call.out = << "a", "/", "b" >>
        /\ \A i \in 2..Len(call.in) :
              Strip(call.in[i], "/") = Dot => call.out = joinUrl(WithoutPart(call.in, i))

\* joinUrl("a/", "./", "b") has returned "a/b"
C16_Witness ==
    /\ call.returned
    /\ call.in = << << "a", "/" >>, << ".", "/" >>, << "b" >> >>
    /\ call.out = << "a", "/", "b" >>

\* C17: a task's expected size never changes, a Done task stays Done, and a
\* Pending task becomes Done only in the step in which its copy invocation
\* exits with code zero (a task Done from its construction is Done because
\* of the local file found then).
C17_StatusTransitions ==
    [][ \A k \in DOMAIN tasks :
          k \in DOMAIN tasks' =>
             /\ tasks'[k].nBytes = tasks[k].nBytes
             /\ tasks[k].done => tasks'[k].done
             /\ (~tasks[k].done /\ tasks'[k].done) =>
                   \E i \in DOMAIN pc :
                      /\ dlTasks[i] = k
                      /\ pc[i] = "copying" /\ pc'[i] = "returned"
                      /\ i \notin cpFailed' ]_vars

\* C18: the completed-counts of the progress lines of a run are strictly
\* increasing, so no count is reported by more than one line, also when
\* several of the 100 thresholds fall on the same count.
C18_ProgressCountsIncrease ==
    \A j, k \in DOMAIN ProgressLines :
       j < k => ProgressLines[j].done < ProgressLines[k].done

\* a download of more than 100 tasks has ended with several progress lines
C18_Witness ==
    /\ phase = "done" /\ Len(dlTasks) > NProgSteps
    /\ Len(ProgressLines) > 3
    /\ ProgressLines[Len(ProgressLines)].done = Len(dlTasks)

\* C19: in a run that is no dry run the download loop holds each task that
\* is Pending after harvesting exactly once and no other task; no task ever
\* has more than one copy invocation started; every completion is counted
\* once; and when the loop has ended every one of these tasks has had exactly
\* one copy invocation and has been counted exactly once.
C19_EachTaskOnce ==
    /\ \A i, j \in DOMAIN dlTasks : i # j => dlTasks[i] # dlTasks[j]
    /\ \A i \in DOMAIN nCopy : nCopy[i] <= 1
    /\ \A i \in DOMAIN pc :
          /\ pc[i] \in { "new", "waiting" } => nCopy[i] = 0 /\ ~tasks[dlTasks[i]].done
          /\ pc[i] \in { "copying", "returned", "counted" } => nCopy[i] = 1
    /\ phase = "download" =>
          /\ \A k \in DOMAIN tasks : k \notin Launched => tasks[k].done
          /\ countDone = Cardinality({ i \in DOMAIN pc : pc[i] = "counted" })
          /\ Len(doneQ) = Cardinality({ i \in DOMAIN pc : pc[i] = "returned" })
    /\ (phase = "done" /\ pc # <<>>) =>
          /\ \A i \in DOMAIN pc : pc[i] = "counted" /\ nCopy[i] = 1
          /\ countDone = Len(dlTasks)

\* a download of three tasks by two processes has ended, one copy having
\* failed: every task was copied once and counted once
C19_Witness ==
    /\ phase = "done" /\ args.nProcesses = 2
    /\ Len(dlTasks) = 3 /\ cpFailed # {}
    /\ \A i \in DOMAIN nCopy : nCopy[i] = 1
    /\ countDone = 3

\* the directory of the file a task is for, as the names from the first path
\* argument down
TaskDir(t) ==
    LET below == BelowPath(t.origUrl) IN SubSeq(below, 1, Len(below) - 1)

\* directory d lies below directory e
DirBelow(d, e) == Len(e) < Len(d) /\ SubSeq(d, 1, Len(e)) = e

\* the task sequences a recursive harvest has produced so far: per branch of
\* the walk in progress, and the one main received for the first path argument
WalkSequences ==
    { hv[n].out : n \in DOMAIN hv }
    \cup (IF ~args.path[1].isfile /\ pathIdx <= 2 THEN { tasks } ELSE {})

\* C20: in every task sequence a recursive harvest produces, the task of a
\* file comes before the task of every file in a directory below that file's
\* directory; in particular the files directly in the harvested directory
\* come before all files of its subdirectories. The sequence of a directory
\* only grows at its end, by the tasks of a subdirectory when the branch of
\* that subdirectory completes, so sibling subdirectories appear in the order
\* in which their branches complete.
C20_FilesBeforeSubdirectories ==
    /\ [](\A seq \in WalkSequences :
             \A i, j \in DOMAIN seq :
                DirBelow(TaskDir(seq[j]), TaskDir(seq[i])) => i < j)
    /\ [][ \A n \in DOMAIN hv :
              n \in DOMAIN hv' =>
                 /\ Len(hv[n].out) <= Len(hv'[n].out)
                 /\ SubSeq(hv'[n].out, 1, Len(hv[n].out)) = hv[n].out
                 /\ \A k \in (Len(hv[n].out) + 1)..Len(hv'[n].out) :
                       \/ hv[n].st = "ls" /\ TaskDir(hv'[n].out[k]) = Components(Split(n, Slash))
                       \/ \E m \in DOMAIN hv :
                             /\ hv[m].parent = n /\ hv[m].st # "done"
                             /\ (m \notin DOMAIN hv' \/ hv'[m].st = "done")
                             /\ TaskDir(hv'[n].out[k]) = Components(Split(m, Slash))
                                \/ DirBelow(TaskDir(hv'[n].out[k]), Components(Split(m, Slash)))
          ]_vars

\* the walk of /d has ended: the file of /d itself comes first, and the file
\* of /d/L/ comes before the files of /d/K/ although K is listed before L
C20_Witness ==
    /\ remote = TreeDeep /\ WalkEnded
    /\ Len(tasks) = 4
    /\ TaskDir(tasks[1]) = <<>>
    /\ \E i, j \in DOMAIN tasks :
          /\ i < j
          /\ TaskDir(tasks[i]) = << << "L" >> >>
          /\ TaskDir(tasks[j]) = << << "K" >> >>

\* the parent directory of a logical name, as line 160 takes it
ParentDir(l) == SubSeq(l, 1, RFind(l, "/"))

\* the parent directory starts with more than one of the configured prefixes
MatchesSeveral(ldir) ==
    Cardinality({ i \in DOMAIN args.lfn_strip : StartsWith(ldir, args.lfn_strip[i]) }) > 1

\* C21: when the parent directory of a name of an explicit list starts with
\* more than one configured prefix, the run is aborted during harvesting: no
\* task is ever constructed for such a name and the run never gets to the
\* downloads or to its normal end.
C21_AmbiguousPrefixAborts ==
    /\ \A t \in ListTasks :
          \A l \in Lfns :
             t.origUrl = RStrip(args.srm, "/") \o Slash \o LStrip(l, "/")
                => ~MatchesSeveral(ParentDir(l))
    /\ (\E l \in Lfns : MatchesSeveral(ParentDir(l))) => phase \in { "harvest", "aborted" }

\* C22: a run() coroutine exists, and so a copy invocation can have been
\* started, only when every path argument has been harvested: no walk or
\* list is in progress, no listing call is in flight, and the task list is
\* complete; listing calls and copy invocations are never in flight together.
C22_CopiesAfterHarvest ==
    /\ (pc # <<>> \/ phase = "download") =>
          /\ pathIdx > Len(args.path)
          /\ hv = NoNode /\ lfn.st = "idle"
          /\ LsInFlight = 0 /\ lsSem = LsSemaphoreSize
          /\ Launched \subseteq DOMAIN tasks
          /\ \A k \in DOMAIN tasks : k \in Launched \/ tasks[k].done
    /\ phase = "harvest" => (pc = <<>> /\ nCopy = <<>> /\ CopiesInFlight = 0)
    /\ ~(LsInFlight > 0 /\ CopiesInFlight > 0)

\* a copy is in flight in a run with two path arguments, a walk and a list,
\* both harvested with their listing calls
C22_Witness ==
    /\ Len(args.path) = 2 /\ pathIdx = 3
    /\ CopiesInFlight = 1
    /\ Cardinality(listed) > LsSemaphoreSize
    /\ Len(tasks) = 2

\* C23: no two copy invocations in flight at the same moment write to the
\* same destination file.
C23_NoTwoCopiesToOneFile ==
    \A i, j \in DOMAIN pc :
       (i # j /\ pc[i] = "copying" /\ pc[j] = "copying")
          => Resolved(tasks[dlTasks[i]].dest) # Resolved(tasks[dlTasks[j]].dest)

\* C24: in a dry run the local files and directories stay as they were when
\* the run started.
C24_DryRunLeavesDiskAlone ==
    args.dry_run => (disk = disk0 /\ dirs = DirsOf(disk0))

====
